---- MODULE Spec2Model ----
(***************************************************************************)
(* A model of the speech-intent backend (src/src/server.ts with the two    *)
(* mongoose schemas): POST /api/process-speech as a state machine over     *)
(* concurrent requests, the classifier adapter processTextWithGemini, the  *)
(* JSON extraction extractJsonFromString, and the contacts/tasks store.    *)
(*                                                                         *)
(* Strings are sequences of characters (or of longer literal pieces where  *)
(* only equality and containment matter).  A JavaScript value is a record  *)
(* [t, s]: its type tag and, for a string or number, its characters.       *)
(***************************************************************************)
EXTENDS Integers, Sequences, FiniteSets, TLC

\* Number of requests in flight in one behaviour.
NumReqs == 2
\* Longest model output (in tokens) given to extractJsonFromString in SpecExtract.
MaxTextLen == 5

Reqs == 1..NumReqs

(***************************************************************************)
(* JavaScript values and strings                                           *)
(***************************************************************************)
Undefined == [t |-> "undefined", s |-> <<>>]
Null == [t |-> "null", s |-> <<>>]
Str(s) == [t |-> "string", s |-> s]
Num(s) == [t |-> "number", s |-> s]

\* JavaScript truthiness of undefined, null, a string or a number.
Truthy(v) ==
    \/ v.t = "string" /\ v.s # <<>>
    \/ v.t = "number" /\ v.s # <<"0">>

IsSpace(c) == c = " "

RECURSIVE TrimStart(_)
TrimStart(s) == IF s # <<>> /\ IsSpace(Head(s)) THEN TrimStart(Tail(s)) ELSE s

RECURSIVE TrimEnd(_)
TrimEnd(s) ==
    IF s # <<>> /\ IsSpace(s[Len(s)]) THEN TrimEnd(SubSeq(s, 1, Len(s) - 1)) ELSE s

\* String.prototype.trim
Trim(s) == TrimEnd(TrimStart(s))

\* The 'i' flag of RegExp: letters compare by their lower-case form.
Lower(c) ==
    CASE c = "A" -> "a"
      [] c = "M" -> "m"
      [] c = "N" -> "n"
      [] c = "O" -> "o"
      [] c = "R" -> "r"
      [] OTHER -> c

LowerStr(s) == [i \in 1..Len(s) |-> Lower(s[i])]

IsSubstring(p, s) ==
    \E i \in 0..(Len(s) - Len(p)) : SubSeq(s, i + 1, i + Len(p)) = p

\* String.prototype.split(' ')
RECURSIVE SplitSpace(_, _)
SplitSpace(s, cur) ==
    IF s = <<>> THEN <<cur>>
    ELSE IF IsSpace(Head(s)) THEN <<cur>> \o SplitSpace(Tail(s), <<>>)
    ELSE SplitSpace(Tail(s), Append(cur, Head(s)))

Split(s) == SplitSpace(s, <<>>)

\* new RegExp(source, 'i') throws a SyntaxError ("nothing to repeat") on a
\* source that starts with a quantifier.
RegExpThrows(source) == source # <<>> /\ Head(source) = "*"

\* RegExp(source, 'i').test(s) for a source of literal characters.
RegExpTest(source, s) == IsSubstring(LowerStr(source), LowerStr(s))

\* RegExp(tokens.join('|'), 'i').test(s): any alternative matches.
RegExpAnyTest(tokens, s) == \E i \in 1..Len(tokens) : RegExpTest(tokens[i], s)

(***************************************************************************)
(* The classifier result (GeminiResponse) and its entities                 *)
(***************************************************************************)
Ent(n, p, rel, d, tm) ==
    [t |-> "object", name |-> n, phoneNumber |-> p, relationship |-> rel,
     description |-> d, time |-> tm]

\* entities: {}
EmptyEnt == Ent(Undefined, Undefined, Undefined, Undefined, Undefined)

\* entities absent or null: every property read of it is not reached.
NoEnt(tag) == [EmptyEnt EXCEPT !.t = tag]

GeminiResponse(i, e, tc, err) ==
    [intent |-> i, entities |-> e, targetCollection |-> tc, error |-> err]

\* The object {} as JSON.parse returns it.
EmptyObject == GeminiResponse(Undefined, NoEnt("undefined"), Undefined, Undefined)

Intent(name) == Str(<<name>>)

(***************************************************************************)
(* Literals of the model's inputs                                          *)
(***************************************************************************)
Ann == Str(<<"A", "n", "n">>)
Phone == Str(<<"5", "5", "5">>)
Son == Str(<<"s", "o", "n">>)
Blank == Str(<<" ">>)
Empty == Str(<<>>)
BuyMilk == Str(<<"b", "u", "y", " ", "m", "i", "l", "k">>)
Morning == Str(<<"m", "o", "r", "n", "i", "n", "g">>)
MORN == Str(<<"M", "O", "R", "N">>)
NO == Str(<<"N", "O">>)
GoWalk == Str(<<"g", "o", " ", "w", "a", "l", "k">>)
Star == Str(<<"*">>)
Zz == Str(<<"z", "z">>)
Hello == Str(<<"h", "i">>)

\* Documents the collections may hold when the server connects.
SeedContact ==
    [name |-> Str(<<"N", "o", "r", "a">>), phoneNumber |-> Str(<<"1", "2">>),
     relationship |-> Undefined, prompt |-> Str(<<"p">>), createdAt |-> 0]

SeedTask ==
    [description |-> Str(<<"w", "a", "l", "k">>), time |-> Str(<<"n", "o", "o", "n">>),
     prompt |-> Str(<<"p">>), isCompleted |-> FALSE, createdAt |-> 0]

\* req.body.text: absent, null, a number, an empty, blank or proper string.
BodyTexts == {Undefined, Null, Num(<<"5">>), Empty, Blank, Hello}

U == Undefined

\* JSON objects the model may answer with; the last two lack a required key.
ObjectList ==
    << GeminiResponse(Intent("add_contact"), Ent(Ann, Phone, U, U, U), Str(<<"contacts">>), U),
      GeminiResponse(Intent("add_contact"), Ent(Ann, Phone, Son, U, U), Str(<<"contacts">>), U),
      GeminiResponse(Intent("add_contact"), Ent(Blank, Phone, U, U, U), Str(<<"contacts">>), U),
      GeminiResponse(Intent("add_contact"), Ent(Null, Phone, U, U, U), Str(<<"contacts">>), U),
      GeminiResponse(Intent("add_contact"), Ent(Ann, Empty, U, U, U), Str(<<"contacts">>), U),
      GeminiResponse(Intent("add_contact"), EmptyEnt, Str(<<"contacts">>), U),
      GeminiResponse(Intent("add_contact"), Ent(Null, Phone, U, U, U), Str(<<"contacts">>),
                     Str(<<"no name given">>)),
      GeminiResponse(Intent("add_task"), Ent(U, U, U, BuyMilk, Morning), Str(<<"tasks">>), U),
      GeminiResponse(Intent("add_task"), Ent(U, U, U, Blank, Blank), Str(<<"tasks">>), U),
      GeminiResponse(Intent("add_task"), Ent(U, U, U, Null, Morning), Str(<<"tasks">>), U),
      GeminiResponse(Intent("add_task"), Ent(U, U, U, BuyMilk, U), Str(<<"contacts">>), U),
      GeminiResponse(Intent("add_task"), Ent(U, U, U, BuyMilk, U), Str(<<"tasks">>), Empty),
      GeminiResponse(Intent("get_tasks"), EmptyEnt, Str(<<"tasks">>), U),
      GeminiResponse(Intent("get_tasks"), Ent(U, U, U, U, MORN), Str(<<"tasks">>), U),
      GeminiResponse(Intent("get_tasks"), Ent(U, U, U, U, NO), Str(<<"tasks">>), U),
      GeminiResponse(Intent("get_tasks"), Ent(U, U, U, GoWalk, U), Str(<<"tasks">>), U),
      GeminiResponse(Intent("get_tasks"), Ent(U, U, U, U, Star), Str(<<"tasks">>), U),
      GeminiResponse(Intent("get_tasks"), EmptyEnt, Str(<<"tasks">>), Str(<<"overloaded">>)),
      GeminiResponse(Intent("get_contacts"), EmptyEnt, Str(<<"contacts">>), U),
      GeminiResponse(Intent("get_contacts"), Ent(NO, U, U, U, U), Str(<<"contacts">>), U),
      GeminiResponse(Intent("get_contacts"), Ent(Zz, U, U, U, U), Null, U),
      GeminiResponse(Intent("unknown"), EmptyEnt, Null, U),
      GeminiResponse(Intent("delete_contact"), Ent(Ann, U, U, U, U), Str(<<"contacts">>), U),
      GeminiResponse(Intent("add_task"), Ent(U, U, U, BuyMilk, U), U, U),
      GeminiResponse(Intent("get_tasks"), NoEnt("null"), Str(<<"tasks">>), U) >>

ObjectIds == 1..Len(ObjectList)

AddTaskMorning ==
    GeminiResponse(Intent("add_task"), Ent(U, U, U, BuyMilk, Morning), Str(<<"tasks">>), U)
NoTarget == GeminiResponse(Intent("add_task"), Ent(U, U, U, BuyMilk, U), U, U)
NullEntities == GeminiResponse(Intent("get_tasks"), NoEnt("null"), Str(<<"tasks">>), U)

IdOf(o) == CHOOSE i \in ObjectIds : ObjectList[i] = o

(***************************************************************************)
(* extractJsonFromString.  A model output is a sequence of tokens:         *)
(*   fence  the three backticks followed by json                           *)
(*   close  three backticks not followed by json                           *)
(*   lbrace, rbrace  a brace outside any JSON member list                  *)
(*   space  white space;  prose  any other text                            *)
(*   members  the member list of a JSON object (between its braces), whose *)
(*            parsed value is ObjectList[id]; nested says that its         *)
(*            entities value is an object, written with braces of its own  *)
(***************************************************************************)
Tok(k) == [k |-> k, id |-> 0, nested |-> FALSE]
MembersOf(i) ==
    [k |-> "members", id |-> i, nested |-> ObjectList[i].entities.t = "object"]
Members(o) == MembersOf(IdOf(o))
ObjOf(tok) == ObjectList[tok.id]

TFence == Tok("fence")
TClose == Tok("close")
TLbrace == Tok("lbrace")
TRbrace == Tok("rbrace")
TSpace == Tok("space")
TProse == Tok("prose")

\* The three backticks that close a fence are also the first three
\* characters of an opening fence.
IsBackticks(tok) == tok.k \in {"fence", "close"}

RECURSIVE StripLeft(_)
StripLeft(c) == IF c # <<>> /\ Head(c).k = "space" THEN StripLeft(Tail(c)) ELSE c

RECURSIVE StripRight(_)
StripRight(c) ==
    IF c # <<>> /\ c[Len(c)].k = "space"
    THEN StripRight(SubSeq(c, 1, Len(c) - 1)) ELSE c

RECURSIVE DropSpaces(_)
DropSpaces(c) ==
    IF c = <<>> THEN <<>>
    ELSE IF Head(c).k = "space" THEN DropSpaces(Tail(c))
    ELSE <<Head(c)>> \o DropSpaces(Tail(c))

\* First alternative at position i: the fence, white space, the shortest
\* content, white space, the next three backticks.
FenceMatchesAt(text, i) ==
    /\ text[i].k = "fence"
    /\ \E j \in (i + 1)..Len(text) : IsBackticks(text[j])

FenceCloseAt(text, i) ==
    CHOOSE j \in (i + 1)..Len(text) :
        /\ IsBackticks(text[j])
        /\ \A m \in (i + 1)..(j - 1) : ~IsBackticks(text[m])

\* Capture group 1.
FenceGroup(text, i) ==
    StripRight(StripLeft(SubSeq(text, i + 1, FenceCloseAt(text, i) - 1)))

\* A JSON member list whose entities value is an object holds braces of its
\* own, which the pattern's second alternative sees like any other brace.
HasLbrace(tok) ==
    tok.k = "lbrace" \/ (tok.k = "members" /\ tok.nested)

HasRbrace(tok) ==
    tok.k = "rbrace" \/ (tok.k = "members" /\ tok.nested)

\* Second alternative at position i: a brace, then greedily to the last
\* closing brace of the text.
BraceMatchesAt(text, i) ==
    \/ text[i].k = "lbrace" /\ \E j \in (i + 1)..Len(text) : HasRbrace(text[j])
    \/ text[i].k = "members" /\ HasLbrace(text[i])

LastRbrace(text) ==
    CHOOSE j \in 1..Len(text) :
        /\ HasRbrace(text[j])
        /\ \A m \in (j + 1)..Len(text) : ~HasRbrace(text[m])

\* Capture group 2: whole is FALSE when the span starts or ends at a brace
\* inside a member list.
BraceGroup(text, i) ==
    [defined |-> TRUE, s |-> SubSeq(text, i, LastRbrace(text)),
     whole |-> text[i].k = "lbrace" /\ text[LastRbrace(text)].k = "rbrace"]

MatchesAt(text, i) == FenceMatchesAt(text, i) \/ BraceMatchesAt(text, i)

\* text.match(...): the leftmost position where either alternative matches;
\* at that position the first alternative is tried first.
HasMatch(text) == \E i \in 1..Len(text) : MatchesAt(text, i)

MatchStart(text) ==
    CHOOSE i \in 1..Len(text) :
        /\ MatchesAt(text, i)
        /\ \A m \in 1..(i - 1) : ~MatchesAt(text, m)

\* jsonMatch[1] || jsonMatch[2]; an empty group 1 is falsy and group 2 is
\* then undefined.
JsonCandidate(text) ==
    LET i == MatchStart(text) IN
    IF FenceMatchesAt(text, i)
    THEN (IF FenceGroup(text, i) # <<>>
          THEN [defined |-> TRUE, s |-> FenceGroup(text, i), whole |-> TRUE]
          ELSE [defined |-> FALSE, s |-> <<>>, whole |-> TRUE])
    ELSE BraceGroup(text, i)

\* JSON.parse: an object is a brace, a member list (or none) and a brace,
\* with white space allowed around each.  A span cut inside a member list
\* is either no JSON or the entities object alone, which has none of the
\* three keys.  Anything else throws.
JsonParse(c) ==
    LET d == DropSpaces(c.s) IN
    IF c.defined /\ c.whole /\ Len(d) = 3 /\ d[1].k = "lbrace"
                 /\ d[2].k = "members" /\ d[3].k = "rbrace"
    THEN [ok |-> TRUE, value |-> ObjOf(d[2])]
    ELSE IF c.defined /\ c.whole /\ Len(d) = 2 /\ d[1].k = "lbrace" /\ d[2].k = "rbrace"
    THEN [ok |-> TRUE, value |-> EmptyObject]
    ELSE IF c.defined /\ ~c.whole /\ Len(c.s) = 1
    THEN [ok |-> TRUE, value |-> EmptyObject]
    ELSE [ok |-> FALSE, value |-> EmptyObject]

\* parsed.intent && parsed.entities && typeof parsed.targetCollection !== 'undefined'
ShapeOk(o) ==
    /\ Truthy(o.intent)
    /\ o.entities.t = "object"
    /\ o.targetCollection.t # "undefined"

NullResult == [ok |-> FALSE, value |-> EmptyObject]

extractJsonFromString(text) ==
    IF HasMatch(text)
    THEN LET parsed == JsonParse(JsonCandidate(text)) IN
         IF parsed.ok /\ ShapeOk(parsed.value)
         THEN [ok |-> TRUE, value |-> parsed.value]
         ELSE NullResult
    ELSE NullResult

(***************************************************************************)
(* The entity schemas (mongoose): casting at construction, validation at   *)
(* save                                                                    *)
(***************************************************************************)
\* A String path with trim: true: the setter trims a string; undefined and
\* null stay as they are.
CastString(v) == IF v.t = "string" THEN Str(Trim(v.s)) ELSE v

\* The path declared without required: true.
RequiredOff(v) == TRUE

\* required: true on a String path: a string of length > 0.
RequiredOk(v) == v.t = "string" /\ v.s # <<>>

\* new ContactModel({ name, phoneNumber, relationship }): prompt is never given.
NewContact(e, now) ==
    [name |-> CastString(e.name), phoneNumber |-> CastString(e.phoneNumber),
     relationship |-> CastString(e.relationship), prompt |-> Undefined,
     createdAt |-> now]

\* new TaskModel({ description, time: entities.time || undefined })
NewTask(e, now) ==
    [description |-> CastString(e.description),
     time |-> IF Truthy(e.time) THEN CastString(e.time) ELSE Undefined,
     prompt |-> Undefined, isCompleted |-> FALSE, createdAt |-> now]

\* ContactSchema's validators, run by save().
ContactValid(doc) ==
    RequiredOk(doc.name) /\ RequiredOk(doc.phoneNumber) /\ RequiredOk(doc.prompt)

\* TaskSchema's validators, run by save().
TaskValid(doc) == RequiredOk(doc.description) /\ RequiredOk(doc.prompt)

\* Raw texts of the model: each object bare, one in a fence, one in a fence
\* after a remark in braces, and prose with no JSON.
ModelTexts ==
    { <<TLbrace, MembersOf(i), TRbrace>> : i \in ObjectIds }
    \cup { <<TFence, TSpace, TLbrace, Members(AddTaskMorning), TRbrace, TSpace, TClose>>,
           <<TLbrace, TProse, TRbrace, TFence, TLbrace, Members(AddTaskMorning), TRbrace, TClose>>,
           <<TProse>> }

Outcome(k, reason, text) == [kind |-> k, reason |-> reason, text |-> text]

\* What awaiting generateContent and result.response can produce.
GeminiOutcomes ==
    { Outcome("throwError", <<"fetch failed">>, <<>>),
      Outcome("throwOther", <<>>, <<>>),
      Outcome("noResponse", <<>>, <<>>),
      Outcome("blocked", <<"HATE_SPEECH">>, <<>>) }
    \cup { Outcome("text", <<>>, t) : t \in ModelTexts }

(***************************************************************************)
(* processTextWithGemini                                                   *)
(***************************************************************************)
\* The failure shape returned without its error property.
ErrorResultNoError(msg) == GeminiResponse(Intent("unknown"), EmptyEnt, Null, Undefined)

ErrorResult(msg) == GeminiResponse(Intent("unknown"), EmptyEnt, Null, Str(msg))

processTextWithGemini(o) ==
    CASE o.kind = "throwError" ->
            ErrorResult(<<"Gemini Processing Error: ">> \o o.reason)
      [] o.kind = "throwOther" ->
            ErrorResult(<<"An unknown error occurred during Gemini processing.">>)
      [] o.kind = "noResponse" ->
            \* !response holds, and reading response.promptFeedback throws a TypeError
            ErrorResult(<<"Gemini Processing Error: ", "Cannot read properties of undefined">>)
      [] o.kind = "blocked" ->
            ErrorResult(<<"Content blocked due to ">> \o o.reason)
      [] OTHER ->
            LET parsedJson == extractJsonFromString(o.text) IN
            IF parsedJson.ok THEN parsedJson.value
            ELSE ErrorResult(<<"Gemini Processing Error: ",
                               "Failed to extract or parse valid JSON from Gemini response.">>)

(***************************************************************************)
(* State                                                                   *)
(***************************************************************************)
VARIABLES
    contacts,     \* the contacts collection, in insertion order
    tasks,        \* the tasks collection, in insertion order
    nodeEnv,      \* process.env.NODE_ENV
    pc,           \* per request: idle, awaitGemini, awaitDb, done
    body,         \* per request: req.body.text
    dbOp,         \* per request: the store operation awaited, and Date.now at
                  \* the document's construction
    responses,    \* per request: the responses sent, in order
    geminiCalls,  \* per request: calls of geminiModel.generateContent
    writes,       \* per request: documents inserted into each collection
    handled,      \* per request: runs of the central error middleware
    modelOut,     \* per request: what the model call produced
    gemini,       \* per request: what processTextWithGemini returned
    dbResult,     \* per request: none, ok, rejected (validation), fault (store)
    exText,       \* SpecExtract: the text given to extractJsonFromString
    exPc,         \* SpecExtract: ready, done
    exCandidate,  \* SpecExtract: the string handed to JSON.parse
    exResult      \* SpecExtract: the result of extractJsonFromString

vars ==
    <<contacts, tasks, nodeEnv, pc, body, gemini, dbOp, responses, geminiCalls,
      writes, handled, modelOut, dbResult, exText, exPc, exCandidate, exResult>>

reqVars ==
    <<contacts, tasks, nodeEnv, pc, body, gemini, dbOp, responses, geminiCalls,
      writes, handled, modelOut, dbResult>>

exVars == <<exText, exPc, exCandidate, exResult>>

NoCandidate == [defined |-> FALSE, s |-> <<>>, whole |-> TRUE]
NoOp == [op |-> "none", createdAt |-> 0]
NoWrites == [contacts |-> 0, tasks |-> 0]
NoOutcome == Outcome("none", <<>>, <<>>)

(***************************************************************************)
(* Responses and the central error middleware                              *)
(***************************************************************************)
Resp(status, message, fields) ==
    [status |-> status, message |-> message, fields |-> fields]

\* An Error as the middleware reads it; status 0 stands for no status property.
Err(name, message) == [name |-> name, message |-> message, status |-> 0]

ValidationError(path) == Err("ValidationError", <<"Path ", path, " is required.">>)
MongoError == Err("MongoNetworkError", <<"connection closed">>)
RegExpSyntaxError == Err("SyntaxError", <<"Invalid regular expression: nothing to repeat">>)

\* The status read without its default.
ErrorStatusNoDefault(err) == err.status

\* process.env.NODE_ENV: production or anything else.
NodeEnvs == {"production", "development"}

\* (err as any).status || 500
ErrorStatus(err) == IF err.status # 0 THEN err.status ELSE 500

ErrorMessage(err, env) ==
    IF env = "production"
    THEN <<"An internal server error occurred.">>
    ELSE <<"Internal Server Error: ">> \o err.message

CentralHandler(err, env) == Resp(ErrorStatus(err), ErrorMessage(err, env), {"message"})

(***************************************************************************)
(* POST /api/process-speech, up to the classifier call                     *)
(***************************************************************************)
\* The check without text.trim().length === 0.
ValidTextNoTrim(text) == Truthy(text) /\ text.t = "string"

\* The negation of: !text || typeof text !== 'string' || text.trim().length === 0
ValidText(text) == Truthy(text) /\ text.t = "string" /\ Len(Trim(text.s)) # 0

ProcessSpeech(r) ==
    /\ pc[r] = "idle"
    /\ \E text \in BodyTexts :
        /\ body' = [body EXCEPT ![r] = text]
        /\ IF ValidText(text)
           THEN /\ geminiCalls' = [geminiCalls EXCEPT ![r] = @ + 1]
                /\ pc' = [pc EXCEPT ![r] = "awaitGemini"]
                /\ responses' = responses
           ELSE /\ responses' = [responses EXCEPT ![r] = Append(@,
                        Resp(400, <<"Valid text input is required in the request body">>,
                             {"message"}))]
                /\ pc' = [pc EXCEPT ![r] = "done"]
                /\ geminiCalls' = geminiCalls
    /\ UNCHANGED <<contacts, tasks, nodeEnv, gemini, dbOp, writes, handled, modelOut, dbResult>>
    /\ UNCHANGED exVars

(***************************************************************************)
(* The handler after processTextWithGemini: up to the store operation it   *)
(* awaits, or to its response                                              *)
(***************************************************************************)
Finish(resp) == [next |-> "done", op |-> "none", resp |-> resp, handled |-> 0]
Forward(err, env) ==
    [next |-> "done", op |-> "none", resp |-> CentralHandler(err, env), handled |-> 1]
Await(op) ==
    [next |-> "awaitDb", op |-> op, resp |-> Resp(0, <<>>, {}), handled |-> 0]

\* new RegExp(entities.description.split(' ').join('|'), 'i') throws when an
\* alternative starts with a quantifier.
DescriptionRegExpThrows(d) ==
    \E i \in 1..Len(Split(d)) : RegExpThrows(Split(d)[i])

\* The guard testing entities.name alone.
HasContactFieldsNameOnly(e) == Truthy(e.name)

\* entities.name && entities.phoneNumber
HasContactFields(e) == Truthy(e.name) /\ Truthy(e.phoneNumber)

\* entities.description
HasTaskFields(e) == Truthy(e.description)

Dispatch(g, env) ==
    LET e == g.entities IN
    IF Truthy(g.error) \/ g.intent = Intent("unknown")
    THEN Finish(Resp(IF Truthy(g.error) THEN 500 ELSE 400,
                     IF Truthy(g.error)
                     THEN <<"Sorry, I had trouble understanding that right now.">>
                     ELSE <<"I'm sorry, I didn't quite understand your request.">>,
                     {"message", "details"}))
    ELSE CASE g.intent = Intent("add_contact") ->
                IF HasContactFields(e)
                THEN Await("saveContact")
                ELSE Finish(Resp(400,
                        <<"I understood you want to add a contact, but I couldn't get the required name or phone number.">>,
                        {"message"}))
           [] g.intent = Intent("add_task") ->
                IF HasTaskFields(e)
                THEN Await("saveTask")
                ELSE Finish(Resp(400,
                        <<"I understood you want to add a task, but I couldn't get the description.">>,
                        {"message"}))
           [] g.intent = Intent("get_tasks") ->
                IF \/ Truthy(e.time) /\ RegExpThrows(e.time.s)
                   \/ Truthy(e.description) /\ DescriptionRegExpThrows(e.description.s)
                THEN Forward(RegExpSyntaxError, env)
                ELSE Await("findTasks")
           [] g.intent = Intent("get_contacts") ->
                IF Truthy(e.name) /\ RegExpThrows(e.name.s)
                THEN Forward(RegExpSyntaxError, env)
                ELSE Await("findContacts")
           [] OTHER ->
                Finish(Resp(200, <<"Something went wrong while processing your request.">>,
                            {"message", "intent", "entities"}))

\* Date.now() at the construction of this request's document.
Now == 1 + Cardinality({q \in Reqs : dbOp[q].op \in {"saveContact", "saveTask"}})

\* processTextWithGemini and the dispatch on its result, tabulated over the
\* outcomes of the model call.
ClassifyTable == [o \in GeminiOutcomes |-> processTextWithGemini(o)]

DispatchTable ==
    [o \in GeminiOutcomes |->
        [env \in NodeEnvs |-> Dispatch(ClassifyTable[o], env)]]

GeminiReturns(r) ==
    /\ pc[r] = "awaitGemini"
    /\ \E o \in GeminiOutcomes :
        LET d == DispatchTable[o][nodeEnv]
        IN  /\ modelOut' = [modelOut EXCEPT ![r] = o]
            /\ gemini' = [gemini EXCEPT ![r] = ClassifyTable[o]]
            /\ pc' = [pc EXCEPT ![r] = d.next]
            /\ dbOp' = [dbOp EXCEPT ![r] =
                   [op |-> d.op,
                    createdAt |-> IF d.op \in {"saveContact", "saveTask"} THEN Now ELSE 0]]
            /\ responses' = [responses EXCEPT ![r] =
                   IF d.next = "done" THEN Append(@, d.resp) ELSE @]
            /\ handled' = [handled EXCEPT ![r] = @ + d.handled]
    /\ UNCHANGED <<contacts, tasks, nodeEnv, body, geminiCalls, writes, dbResult>>
    /\ UNCHANGED exVars

(***************************************************************************)
(* The store operations: save (validation, then insert) and find           *)
(***************************************************************************)
\* The first schema path whose required validator fails.
ContactInvalidPath(doc) ==
    IF ~RequiredOk(doc.name) THEN "name"
    ELSE IF ~RequiredOk(doc.phoneNumber) THEN "phoneNumber" ELSE "prompt"

TaskInvalidPath(doc) == IF ~RequiredOk(doc.description) THEN "description" ELSE "prompt"

\* query = { isCompleted: false, time?: RegExp, description?: RegExp }
TaskMatches(doc, e) ==
    /\ doc.isCompleted = FALSE
    /\ Truthy(e.time) =>
           doc.time.t = "string" /\ RegExpTest(e.time.s, doc.time.s)
    /\ Truthy(e.description) =>
           doc.description.t = "string"
           /\ RegExpAnyTest(Split(e.description.s), doc.description.s)

\* query = { name?: RegExp }
ContactMatches(doc, e) ==
    Truthy(e.name) => doc.name.t = "string" /\ RegExpTest(e.name.s, doc.name.s)

\* sort({ createdAt: -1 })
RECURSIVE SortNewestFirst(_)
SortNewestFirst(docs) ==
    IF docs = <<>> THEN <<>>
    ELSE LET i == CHOOSE k \in 1..Len(docs) :
                      \A m \in 1..Len(docs) : docs[m].createdAt <= docs[k].createdAt
         IN  <<docs[i]>> \o
             SortNewestFirst(SubSeq(docs, 1, i - 1) \o SubSeq(docs, i + 1, Len(docs)))

FindTasks(coll, e) == SortNewestFirst(SelectSeq(coll, LAMBDA doc : TaskMatches(doc, e)))

FindContacts(coll, e) == SelectSeq(coll, LAMBDA doc : ContactMatches(doc, e))

\* array.join('. ')
RECURSIVE Join(_)
Join(lines) ==
    IF lines = <<>> THEN <<>>
    ELSE IF Len(lines) = 1 THEN lines[1]
    ELSE lines[1] \o <<". ">> \o Join(Tail(lines))

TaskLine(doc) ==
    doc.description.s \o (IF Truthy(doc.time) THEN <<" at ">> \o doc.time.s ELSE <<>>)

ContactLine(doc) ==
    doc.name.s \o <<", phone ">> \o doc.phoneNumber.s
    \o (IF Truthy(doc.relationship) THEN <<" (">> \o doc.relationship.s \o <<")">> ELSE <<>>)

TasksMessage(found) ==
    IF Len(found) > 0
    THEN <<"Here are your current tasks: ">> \o Join([i \in 1..Len(found) |-> TaskLine(found[i])])
    ELSE <<"You have no pending tasks matching that description.">>

ContactsMessage(found, e) ==
    IF Len(found) > 0
    THEN <<"Here are the contacts I found: ">>
         \o Join([i \in 1..Len(found) |-> ContactLine(found[i])])
    ELSE IF Truthy(e.name)
    THEN <<"I couldn't find a contact named ">> \o e.name.s \o <<".">>
    ELSE <<"You don't have any contacts saved yet.">>

\* responseMessage once the awaited operation has succeeded.
SuccessMessage(op, e, coll) ==
    CASE op = "saveContact" -> <<"OK. I've added ">> \o e.name.s \o <<" to your contacts.">>
      [] op = "saveTask" -> <<"OK. I've added the task: ">> \o e.description.s \o <<".">>
      [] op = "findTasks" -> TasksMessage(FindTasks(coll, e))
      [] OTHER -> ContactsMessage(FindContacts(coll, e), e)

\* The operation not awaited: the handler goes on to its 200 whatever the
\* operation's outcome.
AfterDbNoAwait(failed, err, env, message) ==
    Resp(200, message, {"message", "intent", "entities"})

\* The awaited promise rejects: catch (dbError) { next(dbError) }; it
\* resolves: res.status(200).json({ message, intent, entities }).
AfterDb(failed, err, env, message) ==
    IF failed
    THEN CentralHandler(err, env)
    ELSE Resp(200, message, {"message", "intent", "entities"})

DbReturns(r) ==
    /\ pc[r] = "awaitDb"
    /\ \E fault \in BOOLEAN :
        LET e == gemini[r].entities
            op == dbOp[r].op
            contact == NewContact(e, dbOp[r].createdAt)
            task == NewTask(e, dbOp[r].createdAt)
            invalid == \/ op = "saveContact" /\ ~ContactValid(contact)
                       \/ op = "saveTask" /\ ~TaskValid(task)
            failed == invalid \/ fault
            err == IF op = "saveContact" /\ invalid
                   THEN ValidationError(ContactInvalidPath(contact))
                   ELSE IF op = "saveTask" /\ invalid
                   THEN ValidationError(TaskInvalidPath(task))
                   ELSE MongoError
            coll == IF op = "findTasks" THEN tasks ELSE contacts
        IN  /\ dbResult' = [dbResult EXCEPT ![r] =
                   IF invalid THEN "rejected" ELSE IF fault THEN "fault" ELSE "ok"]
            /\ contacts' = IF op = "saveContact" /\ ~failed
                           THEN Append(contacts, contact) ELSE contacts
            /\ tasks' = IF op = "saveTask" /\ ~failed
                        THEN Append(tasks, task) ELSE tasks
            /\ writes' = [writes EXCEPT ![r] =
                   [contacts |-> @.contacts + IF op = "saveContact" /\ ~failed THEN 1 ELSE 0,
                    tasks |-> @.tasks + IF op = "saveTask" /\ ~failed THEN 1 ELSE 0]]
            /\ responses' = [responses EXCEPT ![r] =
                   Append(@, AfterDb(failed, err, nodeEnv, SuccessMessage(op, e, coll)))]
            /\ handled' = [handled EXCEPT ![r] = @ + IF failed THEN 1 ELSE 0]
            /\ pc' = [pc EXCEPT ![r] = "done"]
    /\ UNCHANGED <<nodeEnv, body, gemini, dbOp, geminiCalls, modelOut>>
    /\ UNCHANGED exVars

(***************************************************************************)
(* The server: requests interleave at their awaits                         *)
(***************************************************************************)
ExIdle ==
    /\ exText = <<>>
    /\ exPc = "off"
    /\ exCandidate = NoCandidate
    /\ exResult = NullResult

ReqsIdle ==
    /\ pc = [r \in Reqs |-> "idle"]
    /\ body = [r \in Reqs |-> Undefined]
    /\ dbOp = [r \in Reqs |-> NoOp]
    /\ responses = [r \in Reqs |-> <<>>]
    /\ geminiCalls = [r \in Reqs |-> 0]
    /\ writes = [r \in Reqs |-> NoWrites]
    /\ handled = [r \in Reqs |-> 0]
    /\ modelOut = [r \in Reqs |-> NoOutcome]
    /\ gemini = [r \in Reqs |-> EmptyObject]
    /\ dbResult = [r \in Reqs |-> "none"]

\* The deployments considered: a production server whose collections hold
\* documents already, and a development server with empty collections.
Deployments ==
    { [env |-> "production", contacts |-> <<SeedContact>>, tasks |-> <<SeedTask>>],
      [env |-> "development", contacts |-> <<>>, tasks |-> <<>>] }

Init ==
    /\ \E d \in Deployments :
        /\ nodeEnv = d.env
        /\ contacts = d.contacts
        /\ tasks = d.tasks
    /\ ReqsIdle
    /\ ExIdle

Next == \E r \in Reqs : ProcessSpeech(r) \/ GeminiReturns(r) \/ DbReturns(r)

Spec == Init /\ [][Next]_vars

(***************************************************************************)
(* extractJsonFromString on every model output of at most MaxTextLen       *)
(* tokens                                                                  *)
(***************************************************************************)
Alphabet ==
    {TFence, TClose, TLbrace, TRbrace, TSpace, TProse,
     Members(AddTaskMorning), Members(NoTarget), Members(NullEntities)}

Texts == UNION {[1..n -> Alphabet] : n \in 0..MaxTextLen}

InitExtract ==
    /\ contacts = <<>>
    /\ tasks = <<>>
    /\ nodeEnv = "development"
    /\ ReqsIdle
    /\ exText \in Texts
    /\ exPc = "ready"
    /\ exCandidate = NoCandidate
    /\ exResult = NullResult

Extract ==
    /\ exPc = "ready"
    /\ exCandidate' = IF HasMatch(exText) THEN JsonCandidate(exText) ELSE NoCandidate
    /\ exResult' = extractJsonFromString(exText)
    /\ exPc' = "done"
    /\ UNCHANGED exText
    /\ UNCHANGED reqVars

NextExtract == Extract

SpecExtract == InitExtract /\ [][NextExtract]_vars

(***************************************************************************)
(* Properties                                                              *)
(***************************************************************************)
Done(r) == pc[r] = "done"
Classified(r) == pc[r] \in {"awaitDb", "done"}
HasIntent(r, name) == Classified(r) /\ gemini[r].intent = Intent(name)
AnsweredOnce(r, status) == Len(responses[r]) = 1 /\ responses[r][1].status = status
Answered(r, status) == \E i \in 1..Len(responses[r]) : responses[r][i].status = status
ContactsOf(r) ==
    {i \in 1..Len(contacts) : dbOp[r].op = "saveContact"
                              /\ contacts[i].createdAt = dbOp[r].createdAt}
TasksOf(r) ==
    {i \in 1..Len(tasks) : dbOp[r].op = "saveTask"
                           /\ tasks[i].createdAt = dbOp[r].createdAt}

\* An entity that is present and not blank.
Present(v) == v.t = "string" /\ Trim(v.s) # <<>>
\* An entity that is absent, null or empty.
Missing(v) == v.t \in {"undefined", "null"} \/ v = Str(<<>>)

\* C1: a request with non-blank text classified as add_contact, without an
\* error and with name and phoneNumber present, whose store does not fail,
\* ends with exactly one Contact created by it carrying that name, phone
\* number and relationship, and with a 200 whose message names the contact.
C1_AddContactCreatesOne ==
    \A r \in Reqs :
        ( /\ Done(r)
          /\ HasIntent(r, "add_contact")
          /\ ~Truthy(gemini[r].error)
          /\ Present(gemini[r].entities.name)
          /\ Present(gemini[r].entities.phoneNumber)
          /\ dbResult[r] # "fault" )
        => /\ writes[r] = [contacts |-> 1, tasks |-> 0]
           /\ \E i \in ContactsOf(r) :
                /\ contacts[i].name.s = Trim(gemini[r].entities.name.s)
                /\ contacts[i].phoneNumber.s = Trim(gemini[r].entities.phoneNumber.s)
                /\ contacts[i].relationship = CastString(gemini[r].entities.relationship)
           /\ Cardinality(ContactsOf(r)) = 1
           /\ AnsweredOnce(r, 200)
           /\ IsSubstring(gemini[r].entities.name.s, responses[r][1].message)

\* An add_task request that has been handled: description present, no
\* classifier error, no failure of the store.
AddTaskHandled(r) ==
    /\ Done(r)
    /\ HasIntent(r, "add_task")
    /\ ~Truthy(gemini[r].error)
    /\ Present(gemini[r].entities.description)
    /\ dbResult[r] # "fault"

C2_Persisted ==
    \A r \in Reqs :
        AddTaskHandled(r) =>
            \E i \in TasksOf(r) :
                /\ tasks[i].description.s = Trim(gemini[r].entities.description.s)
                /\ Truthy(gemini[r].entities.time) =>
                       tasks[i].time = CastString(gemini[r].entities.time)

\* The query q has no description filter, and no time filter or one that is
\* a case-insensitive substring of the task's time.
C2_FilterFits(q, t) ==
    /\ ~Truthy(q.description)
    /\ \/ ~Truthy(q.time)
       \/ Truthy(t.time) /\ IsSubstring(LowerStr(q.time.s), LowerStr(t.time.s))

C2_Listed ==
    \A r1, r2 \in Reqs :
        ( /\ r1 # r2
          /\ AddTaskHandled(r1)
          /\ pc[r2] = "awaitDb" /\ dbOp[r2].op = "findTasks"
          /\ pc'[r2] = "done" /\ dbResult'[r2] = "ok"
          /\ C2_FilterFits(gemini[r2].entities, gemini[r1].entities) )
        => IsSubstring(TaskLine(NewTask(gemini[r1].entities, 0)),
                       responses'[r2][Len(responses'[r2])].message)

\* C2: once an add_task request with description D (and time T) has been
\* handled, a Task with D (and T) is persisted, and every get_tasks query
\* answered afterwards lists it when the query has no filter or a time
\* filter that is a case-insensitive substring of T.
C2_TaskRoundTrip == [](C2_Persisted) /\ [][C2_Listed]_vars

C3_Footprint ==
    \A r \in Reqs :
        /\ (Answered(r, 200) /\ HasIntent(r, "add_contact"))
               => writes[r] = [contacts |-> 1, tasks |-> 0]
        /\ (Answered(r, 200) /\ HasIntent(r, "add_task"))
               => writes[r] = [contacts |-> 0, tasks |-> 1]
        /\ (HasIntent(r, "get_contacts") \/ HasIntent(r, "get_tasks"))
               => writes[r] = NoWrites
        /\ writes[r].contacts + writes[r].tasks <= 1

C3_Step ==
    \A r \in Reqs :
        pc'[r] # pc[r] =>
            /\ Len(contacts') >= Len(contacts)
            /\ Len(tasks') >= Len(tasks)
            /\ SubSeq(contacts', 1, Len(contacts)) = contacts
            /\ SubSeq(tasks', 1, Len(tasks)) = tasks
            /\ Len(contacts') - Len(contacts) = writes'[r].contacts - writes[r].contacts
            /\ Len(tasks') - Len(tasks) = writes'[r].tasks - writes[r].tasks
            /\ (Len(contacts') - Len(contacts)) + (Len(tasks') - Len(tasks)) <= 1
            /\ (gemini'[r].intent \in {Intent("get_contacts"), Intent("get_tasks")})
                   => (contacts' = contacts /\ tasks' = tasks)

\* C3: a request answered 200 with intent add_contact (add_task) has written
\* exactly one document, to contacts (tasks), and nothing else; a request with
\* intent get_contacts or get_tasks leaves both collections unchanged at
\* every step, whatever its response; no request writes more than one
\* document.
C3_WriteFootprint == [](C3_Footprint) /\ [][C3_Step]_vars

\* C3 witness: a get_tasks request was answered 200 over a non-empty store
\* and another request has completed its save attempt.
C3_Witness ==
    \E r, q \in Reqs :
        /\ Done(r) /\ HasIntent(r, "get_tasks") /\ AnsweredOnce(r, 200)
        /\ tasks # <<>>
        /\ Done(q) /\ HasIntent(q, "add_task") /\ dbResult[q] # "none"

\* The body text is absent, not a string, empty or whitespace-only.
BlankBody(v) ==
    \/ v.t \in {"undefined", "null"}
    \/ v.t # "string"
    \/ v.s = <<>>
    \/ \A i \in 1..Len(v.s) : v.s[i] = " "

\* C4: a request whose body text is absent, not a string, empty or
\* whitespace-only is answered 400 (once), the model is never called for it
\* and it writes no document.
C4_BlankTextRejected ==
    \A r \in Reqs :
        (pc[r] # "idle" /\ BlankBody(body[r]))
        => /\ Done(r)
           /\ AnsweredOnce(r, 400)
           /\ geminiCalls[r] = 0
           /\ modelOut[r] = NoOutcome
           /\ writes[r] = NoWrites
           /\ dbOp[r] = NoOp

\* C4 witness: a whitespace-only text and a non-string text have both been
\* answered 400.
C4_Witness ==
    \E r, q \in Reqs :
        /\ Done(r) /\ body[r] = Blank /\ AnsweredOnce(r, 400)
        /\ Done(q) /\ body[q] = Num(<<"5">>) /\ AnsweredOnce(q, 400)

\* The classifier result lacks a field its add intent requires.
C5_MissingField(r) ==
    \/ HasIntent(r, "add_contact")
       /\ (Missing(gemini[r].entities.name) \/ Missing(gemini[r].entities.phoneNumber))
    \/ HasIntent(r, "add_task") /\ Missing(gemini[r].entities.description)

C5_Rejected(r) ==
    /\ Done(r)
    /\ AnsweredOnce(r, 400)
    /\ writes[r] = NoWrites
    /\ dbOp[r] = NoOp

\* C5 as stated: every classifier result with intent add_contact lacking
\* name or phoneNumber, or with intent add_task lacking description, is
\* answered 400 and creates no document.
C5_MissingFieldIs400 ==
    \A r \in Reqs : C5_MissingField(r) => C5_Rejected(r)

\* C5 amended: the same, for classifier results that carry no error.
C5_MissingFieldNoErrorIs400 ==
    \A r \in Reqs :
        (C5_MissingField(r) /\ ~Truthy(gemini[r].error)) => C5_Rejected(r)

\* C5 witness: an add_contact with an empty phone number and an add_task with
\* a null description were both answered 400.
C5_Witness ==
    \E r, q \in Reqs :
        /\ Done(r) /\ HasIntent(r, "add_contact")
        /\ gemini[r].entities.name = Ann /\ gemini[r].entities.phoneNumber = Empty
        /\ ~Truthy(gemini[r].error) /\ AnsweredOnce(r, 400)
        /\ Done(q) /\ HasIntent(q, "add_task")
        /\ gemini[q].entities.description = Null /\ AnsweredOnce(q, 400)

\* The model call failed: blocked, no JSON with the required keys, or thrown.
C6_Extracted == [t \in ModelTexts |-> extractJsonFromString(t)]

C6_Failure(o) ==
    \/ o.kind \in {"blocked", "throwError", "throwOther", "noResponse"}
    \/ o.kind = "text" /\ ~C6_Extracted[o.text].ok

TroubleResp ==
    Resp(500, <<"Sorry, I had trouble understanding that right now.">>,
         {"message", "details"})

\* C6: each classification failure comes back from processTextWithGemini as
\* the value (unknown, {}, null, non-empty error naming the block reason),
\* is answered 500 with the apology, runs no store operation and never
\* reaches the central handler; a classifier result carrying an error is
\* always answered 500, and the classification branch answers 400 exactly
\* for an unknown intent without an error.
C6_ClassificationFailures ==
    \A r \in Reqs :
        /\ (Classified(r) /\ C6_Failure(modelOut[r])) =>
              /\ gemini[r].intent = Intent("unknown")
              /\ gemini[r].entities = EmptyEnt
              /\ gemini[r].targetCollection = Null
              /\ gemini[r].error.t = "string" /\ gemini[r].error.s # <<>>
              /\ modelOut[r].kind = "blocked" =>
                     IsSubstring(modelOut[r].reason, gemini[r].error.s)
              /\ Done(r)
              /\ responses[r] = <<TroubleResp>>
              /\ dbOp[r] = NoOp /\ dbResult[r] = "none" /\ writes[r] = NoWrites
              /\ handled[r] = 0
        /\ (Classified(r) /\ Truthy(gemini[r].error)) =>
              Done(r) /\ responses[r] = <<TroubleResp>> /\ handled[r] = 0
        /\ (Classified(r) /\ ~Truthy(gemini[r].error) /\ gemini[r].intent = Intent("unknown"))
              => Done(r) /\ AnsweredOnce(r, 400)
        /\ (Done(r) /\ AnsweredOnce(r, 400) /\ responses[r][1].fields = {"message", "details"})
              => ~Truthy(gemini[r].error) /\ gemini[r].intent = Intent("unknown")

\* C6 witness: one request was blocked and another got prose without JSON;
\* both were answered 500.
C6_Witness ==
    \E r, q \in Reqs :
        /\ Done(r) /\ modelOut[r].kind = "blocked" /\ AnsweredOnce(r, 500)
        /\ Done(q) /\ modelOut[q].text = <<TProse>> /\ AnsweredOnce(q, 500)

\* C7: when the store operation of a request fails (a rejected save, a
\* failed save or find), the central handler runs once and the request gets
\* exactly one response, a 500 with a message field; none of its documents
\* is in the store.
C7_StoreFailureIs500 ==
    \A r \in Reqs :
        (dbResult[r] \in {"rejected", "fault"} \/ handled[r] > 0)
        => /\ Done(r)
           /\ handled[r] = 1
           /\ AnsweredOnce(r, 500)
           /\ "message" \in responses[r][1].fields
           /\ writes[r] = NoWrites
           /\ ContactsOf(r) = {} /\ TasksOf(r) = {}

\* C7 witness: a find failed in the store and a save was rejected.
C7_Witness ==
    \E r, q \in Reqs :
        /\ Done(r) /\ dbOp[r].op = "findTasks" /\ dbResult[r] = "fault"
        /\ Done(q) /\ dbOp[q].op = "saveContact" /\ dbResult[q] = "rejected"

\* C8: every persisted Contact has a name and a phone number that are not
\* empty after trimming, every persisted Task a description that is not
\* empty after trimming and isCompleted = false.
C8_StoreInvariant ==
    /\ \A i \in 1..Len(contacts) :
          Present(contacts[i].name) /\ Present(contacts[i].phoneNumber)
    /\ \A i \in 1..Len(tasks) :
          Present(tasks[i].description) /\ tasks[i].isCompleted = FALSE

\* C8 witness: the store holds documents, and saves of a whitespace-only name
\* and of a whitespace-only description have both been attempted.
C8_Witness ==
    /\ contacts # <<>> /\ tasks # <<>>
    /\ \E r, q \in Reqs :
        /\ Done(r) /\ dbOp[r].op = "saveContact" /\ gemini[r].entities.name = Blank
        /\ Done(q) /\ dbOp[q].op = "saveTask" /\ gemini[q].entities.description = Blank

HasFence(text) == \E i \in 1..Len(text) : FenceMatchesAt(text, i)
FirstFence(text) ==
    CHOOSE i \in 1..Len(text) :
        FenceMatchesAt(text, i) /\ \A m \in 1..(i - 1) : ~FenceMatchesAt(text, m)
FirstBrace(text) ==
    CHOOSE i \in 1..Len(text) :
        BraceMatchesAt(text, i) /\ \A m \in 1..(i - 1) : ~BraceMatchesAt(text, m)

\* C9: for a text with a fenced block the candidate is the content of the
\* first fenced block, whatever braces precede the fence; the brace span is
\* the candidate only when there is no fenced block; the candidate is
\* accepted only if it parses to an object with intent, entities and a
\* defined targetCollection, and otherwise the result is null.
C9_FenceFirst ==
    exPc = "done" =>
        /\ HasFence(exText) =>
               exCandidate.s = FenceGroup(exText, FirstFence(exText))
        /\ (~HasFence(exText) /\ HasMatch(exText)) =>
               exCandidate = BraceGroup(exText, FirstBrace(exText))
        /\ exResult.ok =>
               /\ JsonParse(exCandidate).ok
               /\ exResult.value = JsonParse(exCandidate).value
               /\ exResult.value.intent.t \notin {"undefined", "null"}
               /\ exResult.value.entities.t \notin {"undefined", "null"}
               /\ exResult.value.targetCollection.t # "undefined"
        /\ ~exResult.ok => exResult = NullResult

\* C10: a request is answered 200 only if its intent is one of add_contact,
\* add_task, get_contacts, get_tasks and its store operation succeeded.
C10_OkOnlyAfterStore ==
    \A r \in Reqs :
        Answered(r, 200) =>
            /\ gemini[r].intent \in {Intent("add_contact"), Intent("add_task"),
                                     Intent("get_contacts"), Intent("get_tasks")}
            /\ dbResult[r] = "ok"

====
